---- MODULE Spec2Model ----
(***************************************************************************)
(* neo-jupyter: a supervisor that locates python and jupyter, launches     *)
(* "jupyter lab" as a child process, writes its own pid to a file, waits   *)
(* for SIGINT/SIGTERM and then calls Stop.  Model of src/main.go.          *)
(*                                                                         *)
(* A Go string is modelled as a sequence of chunks (TLA+ strings); the     *)
(* empty string is << >>.  A chunk is either a separator, a variable       *)
(* reference ("$HOME") or a piece of text without either.                  *)
(***************************************************************************)
EXTENDS Integers, Sequences, FiniteSets, TLC

(* ---------------- bounds of the model ---------------- *)
MaxEnvLen == 3      \* longest MACHBASE_NEO_FILE value, in chunks
MaxCalls == 3       \* Start/Stop calls made by the concurrent callers
MaxSignals == 2     \* signals the environment sends to the supervisor
MaxPolls == 60      \* poll counts the budget test is evaluated for

(* ---------------- values ---------------- *)
NilCmd == 0                       \* the nil *exec.Cmd
NoFile == <<"<absent>">>          \* the pid file does not exist
Running == -1                     \* the supervisor process has not exited
NoLock == "unlocked"
NoPoller == [pc |-> "none", count |-> 0, fired |-> 0]
PollMs == 100                     \* dur := 100 * time.Millisecond
TimeoutMs == 5000                 \* 5 * time.Second
TimerFirings == 1                 \* a time.Timer sends on its channel once
ListSeparator == ":"              \* filepath.ListSeparator
HomeDir == "/home/neo"            \* what os.UserHomeDir returns when it succeeds
EnvChunks == {"/data/nb", "/other", ListSeparator}
Pids == {7, 120, 4096}            \* process ids the supervisor may have
Signals == {"SIGINT", "SIGTERM"}
Callers == {"c1", "c2"}           \* concurrent users of one JupyterLash
Threads == {"main"} \cup Callers

EnvValues == UNION {[1..n -> EnvChunks] : n \in 0..MaxEnvLen}

PythonList == << <<"/usr/bin/python3">>, <<"/usr/bin/python">> >>
JupyterList == << <<"$HOME", "/.local/bin/jupyter">>, <<"/usr/local/bin/jupyter">> >>

(* ---------------- string functions ---------------- *)
\* strings.Contains(path, "$HOME")
Contains(path, var) == \E i \in 1..Len(path) : path[i] = var

\* strings.ReplaceAll(path, "$HOME", home)
ReplaceAll(path, var, new) ==
    [i \in 1..Len(path) |-> IF path[i] = var THEN new ELSE path[i]]

\* the index of the first separator of s at or after position i, Len(s)+1 if none
RECURSIVE IndexFrom(_, _, _)
IndexFrom(s, sep, i) ==
    IF i > Len(s) THEN Len(s) + 1
    ELSE IF s[i] = sep THEN i
    ELSE IndexFrom(s, sep, i + 1)

\* strings.Split(s, sep): all the tokens between separators, empty ones included
RECURSIVE SplitFrom(_, _, _)
SplitFrom(s, sep, i) ==
    LET j == IndexFrom(s, sep, i)
        tok == SubSeq(s, i, j - 1)
    IN  IF j > Len(s) THEN <<tok>>
        ELSE <<tok>> \o SplitFrom(s, sep, j + 1)

Split(s, sep) == SplitFrom(s, sep, 1)

\* fmt.Sprintf("%d", n) for n >= 0: the decimal digits, most significant first
DigitChunk(d) == <<"0", "1", "2", "3", "4", "5", "6", "7", "8", "9">>[d + 1]

\* Sprintf_d with the digits in the order the division produces them
RECURSIVE Sprintf_d_lsf(_)
Sprintf_d_lsf(n) ==
    IF n < 10 THEN <<DigitChunk(n)>>
    ELSE <<DigitChunk(n % 10)>> \o Sprintf_d_lsf(n \div 10)

RECURSIVE Sprintf_d(_)
Sprintf_d(n) ==
    IF n < 10 THEN <<DigitChunk(n)>>
    ELSE Append(Sprintf_d(n \div 10), DigitChunk(n % 10))

(* ---------------- state ---------------- *)
VARIABLES
    fs,          \* the paths os.Stat succeeds on
    homeOK,      \* os.UserHomeDir succeeds
    environ,     \* the value of MACHBASE_NEO_FILE ("" when unset)
    ospid,       \* os.Getpid()
    mainpc,      \* where main() is
    python,      \* main's local: result of findPython
    jupyter,     \* main's local: result of findJupyterExecutable
    jl,          \* the JupyterLash: pythonBin, jupyterBin, notebookDir, cmd
    lock,        \* holder of jl's embedded RWMutex
    pc,          \* per thread: where it is inside Start/Stop
    startWg,     \* per thread: counter of start0's local WaitGroup
    gor,         \* the goroutines start0 launched
    procs,       \* the child processes spawned so far
    stopCmds,    \* number of "jupyter server stop" commands started
    stderr,      \* lines written to os.Stderr
    stdout,      \* lines written to os.Stdout
    pidfile,     \* content of the pid file
    notified,    \* signal.Notify(done, SIGINT, SIGTERM) is in effect
    done,        \* the buffered channel `done` (capacity 1)
    sigCount,    \* signals sent so far
    calls,       \* Start/Stop calls made by the callers so far
    op,          \* per thread: the method it called last
    poller,      \* per thread: the polling goroutine of its stop0 call
    exitStatus   \* exit status of the supervisor, Running while it runs

vars == <<fs, homeOK, environ, ospid, mainpc, python, jupyter, jl, lock, pc,
          startWg, gor, procs, stopCmds, stderr, stdout, pidfile, notified,
          done, sigCount, calls, op, poller, exitStatus>>

envVars == <<fs, homeOK, environ, ospid>>

(* ---------------- binary discovery ---------------- *)
\* os.Stat(path) returns no error
Stat(path) == path \in fs

\* findPython's loop without the early return: the last existing path wins
RECURSIVE findPythonFrom_last(_)
findPythonFrom_last(i) ==
    IF i > Len(PythonList) THEN << >>
    ELSE LET rest == findPythonFrom_last(i + 1)
         IN  IF rest # << >> THEN rest
             ELSE IF PythonList[i] \in fs THEN PythonList[i]
             ELSE << >>

\* the loop of findPython from index i
RECURSIVE findPythonFrom(_)
findPythonFrom(i) ==
    IF i > Len(PythonList) THEN << >>
    ELSE IF Stat(PythonList[i]) THEN PythonList[i]
    ELSE findPythonFrom(i + 1)

findPython == findPythonFrom(1)

\* the path findJupyterExecutable probes for list entry i
JupyterCandidate(i) ==
    IF Contains(JupyterList[i], "$HOME") /\ homeOK
    THEN ReplaceAll(JupyterList[i], "$HOME", HomeDir)
    ELSE JupyterList[i]

RECURSIVE findJupyterFrom(_)
findJupyterFrom(i) ==
    IF i > Len(JupyterList) THEN << >>
    ELSE IF Stat(JupyterCandidate(i)) THEN JupyterCandidate(i)
    ELSE findJupyterFrom(i + 1)

findJupyterExecutable == findJupyterFrom(1)

\* every path a probe may stat
ProbedPaths ==
    {PythonList[i] : i \in 1..Len(PythonList)}
    \cup {JupyterList[i] : i \in 1..Len(JupyterList)}
    \cup {ReplaceAll(JupyterList[i], "$HOME", HomeDir) : i \in 1..Len(JupyterList)}

(* ---------------- main: notebook directory ---------------- *)
\* NotebookDirOf taking the last token of the list
NotebookDirOf_last(dir) ==
    IF dir # << >>
    THEN LET toks == Split(dir, ListSeparator)
         IN  IF Len(toks) > 0 THEN toks[Len(toks)] ELSE <<".">>
    ELSE <<".">>

\* main.go lines 31-37
NotebookDirOf(dir) ==
    IF dir # << >>
    THEN LET toks == Split(dir, ListSeparator)
         IN  IF Len(toks) > 0 THEN toks[1] ELSE <<".">>
    ELSE <<".">>

(* ---------------- initial states ---------------- *)
NewJL(py, ju, dir) ==
    [pythonBin |-> py, jupyterBin |-> ju, notebookDir |-> dir, cmd |-> NilCmd]

InitCommon ==
    /\ lock = NoLock
    /\ pc = [t \in Threads |-> "idle"]
    /\ op = [t \in Threads |-> "none"]
    /\ startWg = [t \in Threads |-> 0]
    /\ gor = << >>
    /\ procs = << >>
    /\ stopCmds = 0
    /\ stderr = << >>
    /\ stdout = << >>
    /\ pidfile = NoFile
    /\ notified = FALSE
    /\ done = << >>
    /\ sigCount = 0
    /\ calls = 0
    /\ poller = [t \in Threads |-> NoPoller]
    /\ exitStatus = Running

\* the supervisor process at the entry of main(), in any environment
InitStartup ==
    /\ InitCommon
    /\ homeOK \in BOOLEAN
    /\ ospid \in Pids
    /\ fs \in SUBSET ProbedPaths
    /\ environ \in EnvValues
    /\ mainpc = "findPython"
    /\ python = << >>
    /\ jupyter = << >>
    /\ jl = NewJL(<< >>, << >>, << >>)

\* the supervisor process at the entry of main(), MACHBASE_NEO_FILE unset or set
Init ==
    /\ InitCommon
    /\ homeOK \in BOOLEAN
    /\ ospid \in Pids
    /\ fs \in SUBSET ProbedPaths
    /\ environ \in {<< >>, <<"/data/nb", ListSeparator, "/other">>}
    /\ mainpc = "findPython"
    /\ python = << >>
    /\ jupyter = << >>
    /\ jl = NewJL(<< >>, << >>, << >>)

(* ---------------- JupyterLash.Start ---------------- *)
Alive == exitStatus = Running

\* Start_Lock that does not wait for the lock to be free
Start_Lock_nowait(t) ==
    /\ Alive
    /\ pc[t] = "Start_Lock"
    /\ lock' = t
    /\ pc' = [pc EXCEPT ![t] = "Start_Check"]
    /\ UNCHANGED <<envVars, mainpc, python, jupyter, jl, startWg, gor, procs,
                   stopCmds, stderr, stdout, pidfile, notified, done, sigCount,
                   calls, op, poller, exitStatus>>

\* jl.Lock() at the entry of Start
Start_Lock(t) ==
    /\ Alive
    /\ pc[t] = "Start_Lock"
    /\ lock = NoLock
    /\ lock' = t
    /\ pc' = [pc EXCEPT ![t] = "Start_Check"]
    /\ UNCHANGED <<envVars, mainpc, python, jupyter, jl, startWg, gor, procs,
                   stopCmds, stderr, stdout, pidfile, notified, done, sigCount,
                   calls, op, poller, exitStatus>>

\* if jl.cmd != nil { return }; the deferred Unlock runs on return
Start_Check(t) ==
    /\ Alive
    /\ pc[t] = "Start_Check"
    /\ IF jl.cmd # NilCmd
       THEN /\ pc' = [pc EXCEPT ![t] = "returned"]
            /\ lock' = NoLock
       ELSE /\ pc' = [pc EXCEPT ![t] = "start0"]
            /\ lock' = lock
    /\ UNCHANGED <<envVars, mainpc, python, jupyter, jl, startWg, gor, procs,
                   stopCmds, stderr, stdout, pidfile, notified, done, sigCount,
                   calls, op, poller, exitStatus>>

\* the command start0 builds: exec.Command(...), cmd.Env
StartCommand ==
    [args |-> <<jl.pythonBin, jl.jupyterBin, <<"lab">>, <<"-y">>,
                <<"--no-browser">>, <<"--notebook-dir">>, jl.notebookDir>>,
     env |-> IF homeOK THEN << <<"HOME=", HomeDir>> >> ELSE << >>]

\* start0 up to `go func() {...}()`: the local cmd, startWg.Add(1), the goroutine
start0_Go(t) ==
    /\ Alive
    /\ pc[t] = "start0"
    /\ gor' = Append(gor, [pc |-> "cmd.Start", starter |-> t,
                           cmd |-> StartCommand, proc |-> 0])
    /\ startWg' = [startWg EXCEPT ![t] = 1]
    /\ pc' = [pc EXCEPT ![t] = "startWg.Wait"]
    /\ UNCHANGED <<envVars, mainpc, python, jupyter, jl, lock, procs,
                   stopCmds, stderr, stdout, pidfile, notified, done, sigCount,
                   calls, op, poller, exitStatus>>

\* the goroutine: cmd.Start() succeeds, startWg.Done()
go_CmdStartOk(g) ==
    /\ Alive
    /\ gor[g].pc = "cmd.Start"
    /\ procs' = Append(procs, [state |-> "live", exit |-> "none",
                               args |-> gor[g].cmd.args, env |-> gor[g].cmd.env])
    /\ gor' = [gor EXCEPT ![g].pc = "cmd.Wait", ![g].proc = Len(procs) + 1]
    /\ startWg' = [startWg EXCEPT ![gor[g].starter] = 0]
    /\ UNCHANGED <<envVars, mainpc, python, jupyter, jl, lock, pc,
                   stopCmds, stderr, stdout, pidfile, notified, done, sigCount,
                   calls, op, poller, exitStatus>>

\* go_CmdStartFail without the startWg.Done() of the error branch
go_CmdStartFail_nodone(g) ==
    /\ Alive
    /\ gor[g].pc = "cmd.Start"
    /\ jl' = [jl EXCEPT !.cmd = NilCmd]
    /\ stderr' = Append(stderr, "fail to start")
    /\ gor' = [gor EXCEPT ![g].pc = "done"]
    /\ UNCHANGED <<envVars, mainpc, python, jupyter, lock, pc, startWg, procs,
                   stopCmds, stdout, pidfile, notified, done, sigCount,
                   calls, op, poller, exitStatus>>

\* the goroutine: cmd.Start() fails: jl.cmd = nil, logError, startWg.Done(), return
go_CmdStartFail(g) ==
    /\ Alive
    /\ gor[g].pc = "cmd.Start"
    /\ jl' = [jl EXCEPT !.cmd = NilCmd]
    /\ stderr' = Append(stderr, "fail to start")
    /\ gor' = [gor EXCEPT ![g].pc = "done"]
    /\ startWg' = [startWg EXCEPT ![gor[g].starter] = 0]
    /\ UNCHANGED <<envVars, mainpc, python, jupyter, lock, pc, procs,
                   stopCmds, stdout, pidfile, notified, done, sigCount,
                   calls, op, poller, exitStatus>>

\* start0_Return without the startWg.Wait()
start0_Return_nowait(t) ==
    /\ Alive
    /\ pc[t] = "startWg.Wait"
    /\ pc' = [pc EXCEPT ![t] = "returned"]
    /\ lock' = NoLock
    /\ UNCHANGED <<envVars, mainpc, python, jupyter, jl, startWg, gor, procs,
                   stopCmds, stderr, stdout, pidfile, notified, done, sigCount,
                   calls, op, poller, exitStatus>>

\* startWg.Wait() returns, start0 returns, Start returns and unlocks
start0_Return(t) ==
    /\ Alive
    /\ pc[t] = "startWg.Wait"
    /\ startWg[t] = 0
    /\ pc' = [pc EXCEPT ![t] = "returned"]
    /\ lock' = NoLock
    /\ UNCHANGED <<envVars, mainpc, python, jupyter, jl, startWg, gor, procs,
                   stopCmds, stderr, stdout, pidfile, notified, done, sigCount,
                   calls, op, poller, exitStatus>>

\* the child process ends on its own account: exit 0, exit # 0, or killed
ChildExit(p) ==
    /\ procs[p].state = "live"
    /\ \E how \in {"zero", "nonzero", "signal"} :
          procs' = [procs EXCEPT ![p].state = "exited", ![p].exit = how]
    /\ UNCHANGED <<envVars, mainpc, python, jupyter, jl, lock, pc, startWg, gor,
                   stopCmds, stderr, stdout, pidfile, notified, done, sigCount,
                   calls, op, poller, exitStatus>>

\* go_CmdWait that returns from the goroutine after logging a Wait error, as the
\* error branch of cmd.Start() does
go_CmdWait_return(g) ==
    /\ Alive
    /\ gor[g].pc = "cmd.Wait"
    /\ procs[gor[g].proc].state = "exited"
    /\ IF procs[gor[g].proc].exit # "zero"
       THEN /\ stderr' = Append(stderr, "fail to run")
            /\ stdout' = stdout
            /\ gor' = [gor EXCEPT ![g].pc = "done"]
       ELSE /\ stderr' = stderr
            /\ stdout' = IF jl.cmd # NilCmd
                         THEN Append(stdout, "exit code")
                         ELSE stdout
            /\ gor' = [gor EXCEPT ![g].pc = "clear"]
    /\ UNCHANGED <<envVars, mainpc, python, jupyter, jl, lock, pc, startWg, procs,
                   stopCmds, pidfile, notified, done, sigCount,
                   calls, op, poller, exitStatus>>

\* the goroutine: cmd.Wait() returns; the error or the exit code is logged
go_CmdWait(g) ==
    /\ Alive
    /\ gor[g].pc = "cmd.Wait"
    /\ procs[gor[g].proc].state = "exited"
    /\ IF procs[gor[g].proc].exit # "zero"
       THEN /\ stderr' = Append(stderr, "fail to run")
            /\ stdout' = stdout
       ELSE /\ stderr' = stderr
            /\ stdout' = IF jl.cmd # NilCmd
                         THEN Append(stdout, "exit code")
                         ELSE stdout
    /\ gor' = [gor EXCEPT ![g].pc = "clear"]
    /\ UNCHANGED <<envVars, mainpc, python, jupyter, jl, lock, pc, startWg, procs,
                   stopCmds, pidfile, notified, done, sigCount,
                   calls, op, poller, exitStatus>>

\* go_Clear with the write made under jl's lock
go_Clear_locked(g) ==
    /\ Alive
    /\ gor[g].pc = "clear"
    /\ lock = NoLock
    /\ jl' = [jl EXCEPT !.cmd = NilCmd]
    /\ gor' = [gor EXCEPT ![g].pc = "done"]
    /\ UNCHANGED <<envVars, mainpc, python, jupyter, lock, pc, startWg, procs,
                   stopCmds, stderr, stdout, pidfile, notified, done, sigCount,
                   calls, op, poller, exitStatus>>

\* the goroutine: jl.cmd = nil, written without the lock
go_Clear(g) ==
    /\ Alive
    /\ gor[g].pc = "clear"
    /\ jl' = [jl EXCEPT !.cmd = NilCmd]
    /\ gor' = [gor EXCEPT ![g].pc = "done"]
    /\ UNCHANGED <<envVars, mainpc, python, jupyter, lock, pc, startWg, procs,
                   stopCmds, stderr, stdout, pidfile, notified, done, sigCount,
                   calls, op, poller, exitStatus>>

(* ---------------- JupyterLash.Stop ---------------- *)
\* jl.Lock() at the entry of Stop
Stop_Lock(t) ==
    /\ Alive
    /\ pc[t] = "Stop_Lock"
    /\ lock = NoLock
    /\ lock' = t
    /\ pc' = [pc EXCEPT ![t] = "Stop_Check"]
    /\ UNCHANGED <<envVars, mainpc, python, jupyter, jl, startWg, gor, procs,
                   stopCmds, stderr, stdout, pidfile, notified, done, sigCount,
                   calls, op, poller, exitStatus>>

\* Stop_Check with the nil test inverted
Stop_Check_inverted(t) ==
    /\ Alive
    /\ pc[t] = "Stop_Check"
    /\ IF jl.cmd # NilCmd
       THEN /\ pc' = [pc EXCEPT ![t] = "returned"]
            /\ lock' = NoLock
       ELSE /\ pc' = [pc EXCEPT ![t] = "stop0"]
            /\ lock' = lock
    /\ UNCHANGED <<envVars, mainpc, python, jupyter, jl, startWg, gor, procs,
                   stopCmds, stderr, stdout, pidfile, notified, done, sigCount,
                   calls, op, poller, exitStatus>>

\* if jl.cmd == nil { return }; otherwise stop0 is entered
Stop_Check(t) ==
    /\ Alive
    /\ pc[t] = "Stop_Check"
    /\ IF jl.cmd = NilCmd
       THEN /\ pc' = [pc EXCEPT ![t] = "returned"]
            /\ lock' = NoLock
       ELSE /\ pc' = [pc EXCEPT ![t] = "stop0"]
            /\ lock' = lock
    /\ UNCHANGED <<envVars, mainpc, python, jupyter, jl, startWg, gor, procs,
                   stopCmds, stderr, stdout, pidfile, notified, done, sigCount,
                   calls, op, poller, exitStatus>>


(* ---------------- JupyterLash.stop0 ---------------- *)
\* if jl.cmd == nil || jl.cmd.Process == nil { return }
stop0_Guard(t) ==
    /\ Alive
    /\ pc[t] = "stop0"
    /\ IF jl.cmd = NilCmd
       THEN /\ pc' = [pc EXCEPT ![t] = "returned"]
            /\ lock' = NoLock
       ELSE /\ pc' = [pc EXCEPT ![t] = "stop0_cmd"]
            /\ lock' = lock
    /\ UNCHANGED <<envVars, mainpc, python, jupyter, jl, startWg, gor, procs,
                   stopCmds, stderr, stdout, pidfile, notified, done, sigCount,
                   calls, op, poller, exitStatus>>

\* stop0_CmdStart whose error return leaves the lock held
stop0_CmdStart_nounlock(t) ==
    /\ Alive
    /\ pc[t] = "stop0_cmd"
    /\ \E ok \in BOOLEAN :
          IF ok
          THEN /\ stopCmds' = stopCmds + 1
               /\ pc' = [pc EXCEPT ![t] = "stop0_cmdWait"]
               /\ UNCHANGED <<stderr, lock>>
          ELSE /\ stderr' = Append(stderr, "fail to stop")
               /\ pc' = [pc EXCEPT ![t] = "returned"]
               /\ UNCHANGED <<stopCmds, lock>>
    /\ UNCHANGED <<envVars, mainpc, python, jupyter, jl, startWg, gor, procs,
                   stdout, pidfile, notified, done, sigCount,
                   calls, op, poller, exitStatus>>

\* exec.Command(jl.jupyterBin, "server", "stop").Start(): the termination request;
\* when it cannot be started the failure is logged and stop0 returns
stop0_CmdStart(t) ==
    /\ Alive
    /\ pc[t] = "stop0_cmd"
    /\ \E ok \in BOOLEAN :
          IF ok
          THEN /\ stopCmds' = stopCmds + 1
               /\ pc' = [pc EXCEPT ![t] = "stop0_cmdWait"]
               /\ UNCHANGED <<stderr, lock>>
          ELSE /\ stderr' = Append(stderr, "fail to stop")
               /\ pc' = [pc EXCEPT ![t] = "returned"]
               /\ lock' = NoLock
               /\ UNCHANGED stopCmds
    /\ UNCHANGED <<envVars, mainpc, python, jupyter, jl, startWg, gor, procs,
                   stdout, pidfile, notified, done, sigCount,
                   calls, op, poller, exitStatus>>

\* cmd.Wait() of the stop command (an error is logged), wg.Add(1), go poller
stop0_CmdWait(t) ==
    /\ Alive
    /\ pc[t] = "stop0_cmdWait"
    /\ \E err \in BOOLEAN :
          stderr' = IF err THEN Append(stderr, "fail to run") ELSE stderr
    /\ poller' = [poller EXCEPT ![t] = [pc |-> "recv", count |-> 0, fired |-> 0]]
    /\ pc' = [pc EXCEPT ![t] = "wg.Wait"]
    /\ UNCHANGED <<envVars, mainpc, python, jupyter, jl, lock, startWg, gor, procs,
                   stopCmds, stdout, pidfile, notified, done, sigCount,
                   calls, op, exitStatus>>

\* TimedOut with the budget taken as 5 * time.Millisecond
TimedOut_ms(count) == count * PollMs > TimeoutMs \div 1000

\* time.Duration(count)*dur > 5*time.Second
TimedOut(count) == count * PollMs > TimeoutMs

\* the poller: one iteration of `for range tick.C` (tick is a time.Timer, whose
\* channel delivers TimerFirings values and is never closed)
poll_Tick(t) ==
    /\ Alive
    /\ poller[t].pc = "recv"
    /\ poller[t].fired < TimerFirings
    /\ IF jl.cmd = NilCmd
       THEN /\ poller' = [poller EXCEPT ![t].pc = "done",
                                        ![t].fired = poller[t].fired + 1]
            /\ stderr' = stderr
       ELSE IF TimedOut(poller[t].count + 1)
       THEN /\ poller' = [poller EXCEPT ![t].pc = "done",
                                        ![t].fired = poller[t].fired + 1,
                                        ![t].count = poller[t].count + 1]
            /\ stderr' = Append(stderr, "timeout")
       ELSE /\ poller' = [poller EXCEPT ![t].fired = poller[t].fired + 1,
                                        ![t].count = poller[t].count + 1]
            /\ stderr' = stderr
    /\ UNCHANGED <<envVars, mainpc, python, jupyter, jl, lock, pc, startWg, gor,
                   procs, stopCmds, stdout, pidfile, notified, done, sigCount,
                   calls, op, exitStatus>>

\* wg.Wait() returns once the poller has run its deferred wg.Done(); Stop unlocks
stop0_Return(t) ==
    /\ Alive
    /\ pc[t] = "wg.Wait"
    /\ poller[t].pc = "done"
    /\ pc' = [pc EXCEPT ![t] = "returned"]
    /\ lock' = NoLock
    /\ UNCHANGED <<envVars, mainpc, python, jupyter, jl, startWg, gor, procs,
                   stopCmds, stderr, stdout, pidfile, notified, done, sigCount,
                   calls, op, poller, exitStatus>>

(* ---------------- main ---------------- *)
\* python := findPython(); if python == "" { Fprintln(Stderr, ...); os.Exit(1) }
main_findPython ==
    /\ Alive
    /\ mainpc = "findPython"
    /\ python' = findPython
    /\ IF python' = << >>
       THEN /\ stderr' = Append(stderr, "python not found")
            /\ exitStatus' = 1
            /\ mainpc' = "exited"
       ELSE /\ stderr' = stderr
            /\ exitStatus' = exitStatus
            /\ mainpc' = "findJupyter"
    /\ UNCHANGED <<envVars, jupyter, jl, lock, pc, startWg, gor, procs, stopCmds,
                   stdout, pidfile, notified, done, sigCount, calls, op, poller>>

\* main_findJupyter without the os.Exit(1)
main_findJupyter_noexit ==
    /\ Alive
    /\ mainpc = "findJupyter"
    /\ jupyter' = findJupyterExecutable
    /\ stderr' = IF jupyter' = << >>
                 THEN Append(stderr, "jupyter not found")
                 ELSE stderr
    /\ mainpc' = "notebookDir"
    /\ UNCHANGED <<envVars, python, jl, lock, pc, startWg, gor, procs, stopCmds,
                   stdout, pidfile, notified, done, sigCount, calls, op, poller,
                   exitStatus>>

\* jupyter := findJupyterExecutable(); if jupyter == "" { ...; os.Exit(1) }
main_findJupyter ==
    /\ Alive
    /\ mainpc = "findJupyter"
    /\ jupyter' = findJupyterExecutable
    /\ IF jupyter' = << >>
       THEN /\ stderr' = Append(stderr, "jupyter not found")
            /\ exitStatus' = 1
            /\ mainpc' = "exited"
       ELSE /\ stderr' = stderr
            /\ exitStatus' = exitStatus
            /\ mainpc' = "notebookDir"
    /\ UNCHANGED <<envVars, python, jl, lock, pc, startWg, gor, procs, stopCmds,
                   stdout, pidfile, notified, done, sigCount, calls, op, poller>>

\* notebookDir from MACHBASE_NEO_FILE, jl := &JupyterLash{...}, jl.Start() is called
main_Start ==
    /\ Alive
    /\ mainpc = "notebookDir"
    /\ jl' = NewJL(python, jupyter, NotebookDirOf(environ))
    /\ mainpc' = "Start"
    /\ pc' = [pc EXCEPT !["main"] = "Start_Lock"]
    /\ op' = [op EXCEPT !["main"] = "Start"]
    /\ UNCHANGED <<envVars, python, jupyter, lock, startWg, gor, procs, stopCmds,
                   stderr, stdout, pidfile, notified, done, sigCount, calls,
                   poller, exitStatus>>

\* os.WriteFile(*pid, []byte(fmt.Sprintf("%d", os.Getpid())), 0644); its error is
\* dropped, so a failed write leaves the file as it was
main_WriteFile ==
    /\ Alive
    /\ mainpc = "Start"
    /\ pc["main"] = "returned"
    /\ \E ok \in BOOLEAN :
          pidfile' = IF ok THEN Sprintf_d(ospid) ELSE pidfile
    /\ mainpc' = "Notify"
    /\ UNCHANGED <<envVars, python, jupyter, jl, lock, pc, startWg, gor, procs,
                   stopCmds, stderr, stdout, notified, done, sigCount, calls, op,
                   poller, exitStatus>>

\* done := make(chan os.Signal, 1); signal.Notify(done, SIGINT, SIGTERM); Println
main_Notify ==
    /\ Alive
    /\ mainpc = "Notify"
    /\ notified' = TRUE
    /\ stdout' = Append(stdout, "started, press ctrl+c to stop...")
    /\ mainpc' = "recv"
    /\ UNCHANGED <<envVars, python, jupyter, jl, lock, pc, startWg, gor, procs,
                   stopCmds, stderr, pidfile, done, sigCount, calls, op,
                   poller, exitStatus>>

\* a SIGINT or SIGTERM reaches the subscribed supervisor; os/signal does not
\* block: the signal is dropped when the channel's buffer is full.  A signal that
\* arrives before the subscription ends the process by the runtime's default
\* action without running any more of main; such runs are left out.
Signal(sig) ==
    /\ Alive
    /\ notified
    /\ sigCount < MaxSignals
    /\ sigCount' = sigCount + 1
    /\ done' = IF Len(done) < 1 THEN Append(done, sig) ELSE done
    /\ UNCHANGED <<envVars, mainpc, python, jupyter, jl, lock, pc, startWg, gor,
                   procs, stopCmds, stderr, stdout, pidfile, notified, calls, op,
                   poller, exitStatus>>

\* <-done, then jl.Stop() is called
main_recv ==
    /\ Alive
    /\ mainpc = "recv"
    /\ done # << >>
    /\ done' = Tail(done)
    /\ mainpc' = "Stop"
    /\ pc' = [pc EXCEPT !["main"] = "Stop_Lock"]
    /\ op' = [op EXCEPT !["main"] = "Stop"]
    /\ UNCHANGED <<envVars, python, jupyter, jl, lock, startWg, gor, procs,
                   stopCmds, stderr, stdout, pidfile, notified, sigCount, calls,
                   poller, exitStatus>>

\* main_return that does not wait for jl.Stop() to return
main_return_early ==
    /\ Alive
    /\ mainpc = "Stop"
    /\ exitStatus' = 0
    /\ mainpc' = "exited"
    /\ UNCHANGED <<envVars, python, jupyter, jl, lock, pc, startWg, gor, procs,
                   stopCmds, stderr, stdout, pidfile, notified, done, sigCount,
                   calls, op, poller>>

\* jl.Stop() has returned and main returns: the process exits with status 0
main_return ==
    /\ Alive
    /\ mainpc = "Stop"
    /\ pc["main"] = "returned"
    /\ exitStatus' = 0
    /\ mainpc' = "exited"
    /\ UNCHANGED <<envVars, python, jupyter, jl, lock, pc, startWg, gor, procs,
                   stopCmds, stderr, stdout, pidfile, notified, done, sigCount,
                   calls, op, poller>>

(* ---------------- the program ---------------- *)
Next ==
    \/ main_findPython
    \/ main_findJupyter
    \/ main_Start
    \/ main_WriteFile
    \/ main_Notify
    \/ main_recv
    \/ main_return
    \/ \E sig \in Signals : Signal(sig)
    \/ Start_Lock("main")
    \/ Start_Check("main")
    \/ start0_Go("main")
    \/ start0_Return("main")
    \/ Stop_Lock("main")
    \/ Stop_Check("main")
    \/ \E g \in 1..Len(gor) : go_CmdStartOk(g)
    \/ \E g \in 1..Len(gor) : go_CmdStartFail(g)
    \/ \E g \in 1..Len(gor) : go_CmdWait(g)
    \/ \E g \in 1..Len(gor) : go_Clear(g)
    \/ \E p \in 1..Len(procs) : ChildExit(p)

Spec == Init /\ [][Next]_vars

\* The Go scheduler runs every runnable goroutine and the spawn call cmd.Start()
\* returns, with either outcome.  Nothing makes the child exit, the environment
\* send a signal or a file write succeed.
MainFairness ==
    /\ WF_vars(main_findPython) /\ WF_vars(main_findJupyter)
    /\ WF_vars(main_Start) /\ WF_vars(main_WriteFile)
    /\ WF_vars(main_Notify) /\ WF_vars(main_recv) /\ WF_vars(main_return)
    /\ WF_vars(Start_Lock("main")) /\ WF_vars(Start_Check("main"))
    /\ WF_vars(start0_Go("main")) /\ WF_vars(start0_Return("main"))
    /\ WF_vars(Stop_Lock("main")) /\ WF_vars(Stop_Check("main"))
    /\ WF_vars(\E g \in 1..Len(gor) : go_CmdStartOk(g) \/ go_CmdStartFail(g))
    /\ WF_vars(\E g \in 1..Len(gor) : go_CmdWait(g))
    /\ WF_vars(\E g \in 1..Len(gor) : go_Clear(g))

FairSpec == Spec /\ MainFairness

(* ---------------- main up to the call of Start ---------------- *)
NextStartup ==
    \/ main_findPython
    \/ main_findJupyter
    \/ main_Start

SpecStartup == InitStartup /\ [][NextStartup]_vars

(* ---------------- one JupyterLash used by concurrent callers ---------------- *)
\* a JupyterLash as main constructs it, with both binaries found
InitAPI ==
    /\ InitCommon
    /\ homeOK = TRUE
    /\ ospid = 120
    /\ fs = ProbedPaths
    /\ environ = <<"/data/nb", ListSeparator, "/other">>
    /\ mainpc = "callers"
    /\ python = findPython
    /\ jupyter = findJupyterExecutable
    /\ jl = NewJL(python, jupyter, NotebookDirOf(environ))

\* a caller that is not inside a call calls Start or Stop
Call(t, m) ==
    /\ pc[t] \in {"idle", "returned"}
    /\ calls < MaxCalls
    /\ calls' = calls + 1
    /\ op' = [op EXCEPT ![t] = m]
    /\ pc' = [pc EXCEPT ![t] = IF m = "Start" THEN "Start_Lock" ELSE "Stop_Lock"]
    /\ UNCHANGED <<envVars, mainpc, python, jupyter, jl, lock, startWg, gor, procs,
                   stopCmds, stderr, stdout, pidfile, notified, done, sigCount,
                   poller, exitStatus>>

NextAPI ==
    \/ \E t \in Callers : Call(t, "Start")
    \/ \E t \in Callers : Call(t, "Stop")
    \/ \E t \in Callers : Start_Lock(t)
    \/ \E t \in Callers : Start_Check(t)
    \/ \E t \in Callers : start0_Go(t)
    \/ \E t \in Callers : start0_Return(t)
    \/ \E t \in Callers : Stop_Lock(t)
    \/ \E t \in Callers : Stop_Check(t)
    \/ \E g \in 1..Len(gor) : go_CmdStartOk(g)
    \/ \E g \in 1..Len(gor) : go_CmdStartFail(g)
    \/ \E g \in 1..Len(gor) : go_CmdWait(g)
    \/ \E g \in 1..Len(gor) : go_Clear(g)
    \/ \E p \in 1..Len(procs) : ChildExit(p)

SpecAPI == InitAPI /\ [][NextAPI]_vars


\* The Go scheduler runs the goroutines of start0: a cmd.Start() returns, a
\* cmd.Wait() returns once its child has exited, and the statements after it run.
\* Nothing makes a child exit or a caller call.
WatcherFairness ==
    /\ WF_vars(\E g \in 1..Len(gor) : go_CmdStartOk(g) \/ go_CmdStartFail(g))
    /\ WF_vars(\E g \in 1..Len(gor) : go_CmdWait(g))
    /\ WF_vars(\E g \in 1..Len(gor) : go_Clear(g))

\* one JupyterLash used by a single caller, one call after the other (as main does)
NextSerial ==
    \/ Call("c1", "Start")
    \/ Call("c1", "Stop")
    \/ Start_Lock("c1")
    \/ Start_Check("c1")
    \/ start0_Go("c1")
    \/ start0_Return("c1")
    \/ Stop_Lock("c1")
    \/ Stop_Check("c1")
    \/ \E g \in 1..Len(gor) : go_CmdStartOk(g)
    \/ \E g \in 1..Len(gor) : go_CmdStartFail(g)
    \/ \E g \in 1..Len(gor) : go_CmdWait(g)
    \/ \E g \in 1..Len(gor) : go_Clear(g)
    \/ \E p \in 1..Len(procs) : ChildExit(p)

FairSpecSerial == InitAPI /\ [][NextSerial]_vars /\ WatcherFairness

(* ---------------- stop0 on a JupyterLash whose handle is set ---------------- *)
\* No statement of main.go assigns a non-nil value to jl.cmd, so Stop never enters
\* stop0 in the program.  The body of stop0 is exercised here from the state its
\* guard is written for: after a Start call of c1, jl.cmd refers to the started
\* child (process 1) that the goroutine of start0 waits on.
InitRunning ==
    /\ lock = NoLock
    /\ pc = [t \in Threads |-> IF t = "c1" THEN "returned" ELSE "idle"]
    /\ op = [t \in Threads |-> IF t = "c1" THEN "Start" ELSE "none"]
    /\ startWg = [t \in Threads |-> 0]
    /\ stopCmds = 0
    /\ stderr = << >>
    /\ stdout = << >>
    /\ pidfile = NoFile
    /\ notified = FALSE
    /\ done = << >>
    /\ sigCount = 0
    /\ calls = 1
    /\ poller = [t \in Threads |-> NoPoller]
    /\ exitStatus = Running
    /\ homeOK = TRUE
    /\ ospid = 120
    /\ fs = ProbedPaths
    /\ environ = << >>
    /\ mainpc = "callers"
    /\ python = findPython
    /\ jupyter = findJupyterExecutable
    /\ jl = [NewJL(python, jupyter, NotebookDirOf(environ)) EXCEPT !.cmd = 1]
    /\ procs = << [state |-> "live", exit |-> "none",
                   args |-> StartCommand.args, env |-> StartCommand.env] >>
    /\ gor = << [pc |-> "cmd.Wait", starter |-> "c1",
                 cmd |-> StartCommand, proc |-> 1] >>

NextRunning ==
    \/ NextAPI
    \/ \E t \in Callers : stop0_Guard(t)
    \/ \E t \in Callers : stop0_CmdStart(t)
    \/ \E t \in Callers : stop0_CmdWait(t)
    \/ \E t \in Callers : poll_Tick(t)
    \/ \E t \in Callers : stop0_Return(t)

SpecRunning == InitRunning /\ [][NextRunning]_vars

\* one JupyterLash, as constructed or with its handle set, used by the callers
InitLash == InitAPI \/ InitRunning

SpecLash == InitLash /\ [][NextRunning]_vars


(* ======================= properties ======================= *)
LiveProcs == {p \in 1..Len(procs) : procs[p].state = "live"}

Logged(msg) == \E i \in 1..Len(stderr) : stderr[i] = msg

StopReturned(t) == op[t] = "Stop" /\ pc[t] = "returned"

\* C1: a Start call made while a child launched by an earlier Start is still
\* running launches nothing, so at most one child is live: no step spawns a
\* process while some child is live.
C1_StartWhileRunningLaunchesNothing ==
    [][LiveProcs # {} => Len(procs') = Len(procs)]_vars

\* C2: after a successful Start (child spawned and still running) followed by
\* Stop, the child has been sent a termination request when Stop returns.
C2_StopRequestsTermination ==
    \A t \in Threads :
        (StopReturned(t) /\ LiveProcs # {}) => stopCmds >= 1

\* C3: when the child does not exit, Stop returns only once the 5-second budget
\* is exhausted, and a timeout is logged before it returns.
C3_TimeoutLoggedBeforeReturn ==
    \A t \in Threads :
        (StopReturned(t) /\ LiveProcs # {}) => Logged("timeout")

\* C4: a Stop call made while the handle is empty is a no-op: each of its steps
\* changes nothing but the lock and the caller's position, it sends no
\* termination request, launches no process, starts no poller, and it returns
\* straight from the nil test.
C4_StopOnEmptyHandleIsNoop ==
    [][\A t \in Threads :
          (op[t] = "Stop" /\ pc'[t] # pc[t] /\ jl.cmd = NilCmd)
          => /\ UNCHANGED <<jl, procs, gor, startWg, stopCmds, poller, stderr,
                            stdout, pidfile>>
             /\ pc[t] = "Stop_Check" => (pc'[t] = "returned" /\ lock' = NoLock)
             /\ pc[t] = "Stop_Lock" => pc'[t] = "Stop_Check"]_vars

C4_Witness ==
    \E t \in Threads : StopReturned(t) /\ stopCmds = 0 /\ lock = NoLock

JupyterPaths ==
    IF homeOK
    THEN << <<HomeDir, "/.local/bin/jupyter">>, <<"/usr/local/bin/jupyter">> >>
    ELSE << <<"$HOME", "/.local/bin/jupyter">>, <<"/usr/local/bin/jupyter">> >>

NoneExists(list) == \A i \in 1..Len(list) : list[i] \notin fs

\* C6: when the python interpreter or the jupyter executable cannot be located,
\* the supervisor exits with status 1 after printing an error; no child is
\* launched, no pid file is written and no signal wait is entered.
C6_MissingBinaryExits1 ==
    (NoneExists(PythonList) \/ NoneExists(JupyterPaths))
    => /\ mainpc \in {"findPython", "findJupyter", "exited"}
       /\ procs = << >> /\ gor = << >>
       /\ pidfile = NoFile
       /\ ~notified
       /\ op["main"] = "none"
       /\ mainpc = "exited"
          => /\ exitStatus = 1
             /\ stderr \in {<<"python not found">>, <<"jupyter not found">>}

C6_Witness ==
    /\ exitStatus = 1
    /\ ~NoneExists(PythonList)
    /\ NoneExists(JupyterPaths)
    /\ stderr = <<"jupyter not found">>

Digits == {"0", "1", "2", "3", "4", "5", "6", "7", "8", "9"}

DigitValue(c) == CHOOSE d \in 0..9 : DigitChunk(d) = c

\* the number a sequence of decimal digits denotes
RECURSIVE DecimalValue(_)
DecimalValue(ds) ==
    IF ds = << >> THEN 0
    ELSE 10 * DecimalValue(SubSeq(ds, 1, Len(ds) - 1)) + DigitValue(ds[Len(ds)])

IsDecimalOf(ds, n) ==
    /\ Len(ds) >= 1
    /\ \A i \in 1..Len(ds) : ds[i] \in Digits
    /\ Len(ds) > 1 => ds[1] # "0"
    /\ DecimalValue(ds) = n

StartHasReturned ==
    /\ pc["main"] \notin {"idle", "Start_Lock", "Start_Check", "start0", "startWg.Wait"}
    /\ Len(gor) = 1
    /\ gor[1].pc # "cmd.Start"

\* C7 as stated: whenever the pid file is written, Start has returned, the child
\* was spawned successfully and the content is the supervisor's pid in decimal.
C7_PidFileAfterSuccessfulStart ==
    pidfile # NoFile
    => /\ StartHasReturned
       /\ Len(procs) >= 1
       /\ IsDecimalOf(pidfile, ospid)

\* C7 amended: whenever the pid file is written, Start has returned (the spawn
\* has succeeded or failed) and the content is exactly the supervisor's pid in
\* decimal.
C7_PidFileAfterStartReturned ==
    pidfile # NoFile
    => /\ StartHasReturned
       /\ IsDecimalOf(pidfile, ospid)

C7_Witness == pidfile # NoFile /\ ospid = 120 /\ LiveProcs # {}

IsFirstExisting(list, r) ==
    \/ r = << >> /\ NoneExists(list)
    \/ \E i \in 1..Len(list) :
          /\ r = list[i]
          /\ list[i] \in fs
          /\ \A j \in 1..(i - 1) : list[j] \notin fs

\* C8: each discovery probe returns the first path of its ordered candidate list
\* that exists, and the empty string when none exists.
C8_DiscoveryReturnsFirstExisting ==
    /\ mainpc # "findPython" => IsFirstExisting(PythonList, python)
    /\ (mainpc \notin {"findPython", "findJupyter"} /\ python # << >>)
       => IsFirstExisting(JupyterPaths, jupyter)

\* only the second candidate of each list exists
C8_Witness ==
    /\ mainpc = "notebookDir"
    /\ PythonList[1] \notin fs /\ python = PythonList[2]
    /\ JupyterPaths[1] \notin fs /\ jupyter = JupyterPaths[2]

\* d is the part of s before its first separator
IsFirstToken(d, s) ==
    /\ Len(d) <= Len(s)
    /\ \A i \in 1..Len(d) : d[i] = s[i] /\ d[i] # ListSeparator
    /\ Len(d) < Len(s) => s[Len(d) + 1] = ListSeparator

\* C9: the notebook directory is the first path-list token of MACHBASE_NEO_FILE
\* when the variable is set (/data/nb:/other gives /data/nb) and "." when it is
\* unset or empty.
C9_NotebookDirIsFirstToken ==
    mainpc = "Start"
    => /\ environ = << >> => jl.notebookDir = <<".">>
       /\ environ # << >> => IsFirstToken(jl.notebookDir, environ)
       /\ environ = <<"/data/nb", ListSeparator, "/other">>
          => jl.notebookDir = <<"/data/nb">>

C9_Witness ==
    /\ mainpc = "Start"
    /\ environ = <<"/data/nb", ListSeparator, "/other">>
    /\ jl.notebookDir = <<"/data/nb">>

HasArg(args, a) == \E i \in 1..Len(args) : args[i] = <<a>>

HasOption(args, name, value) ==
    \/ \E i \in 1..Len(args) : args[i] = <<name, "=", value>>
    \/ \E i \in 1..(Len(args) - 1) : args[i] = <<name>> /\ args[i + 1] = <<value>>

\* C10: every launched child is given lab mode, no-browser, the notebook
\* directory, bind address 127.0.0.1 and port 8888 (and the base URL, remote
\* access and token options).
C10_FixedArgumentList ==
    \A p \in 1..Len(procs) :
        /\ HasArg(procs[p].args, "lab")
        /\ HasArg(procs[p].args, "--no-browser")
        /\ \E i \in 1..(Len(procs[p].args) - 1) :
              /\ procs[p].args[i] = <<"--notebook-dir">>
              /\ procs[p].args[i + 1] = jl.notebookDir
        /\ HasOption(procs[p].args, "--ip", "127.0.0.1")
        /\ HasOption(procs[p].args, "--port", "8888")

\* C11: whenever Start has returned after a successful spawn and the child has not
\* yet exited, the supervisor's handle is non-empty.
C11_HandleRecordedWhileChildRuns ==
    (StartHasReturned /\ LiveProcs # {}) => jl.cmd # NilCmd

\* C12: when the supervisor has exited after shutdown, the handle is empty and no
\* child it launched is still live.
C12_IdleAfterShutdown ==
    exitStatus = 0 => (jl.cmd = NilCmd /\ LiveProcs = {})

SpawnOutcomeKnown(t) ==
    /\ \E g \in 1..Len(gor) : gor[g].starter = t
    /\ \A g \in 1..Len(gor) : gor[g].starter = t => gor[g].pc # "cmd.Start"

\* C14: Start never returns before the outcome of the spawn is known, and every
\* Start call returns, after a spawn success as after a failure, whether or not
\* the child ever exits.
C14_StartBlocksUntilSpawnReturns ==
    /\ [](\A t \in Threads :
            (op[t] = "Start" /\ pc[t] = "returned") => SpawnOutcomeKnown(t))
    /\ (pc["main"] = "Start_Lock") ~> (op["main"] = "Start" /\ pc["main"] = "returned")

\* Start has returned after a successful spawn and the child is still running
C14_Witness ==
    /\ op["main"] = "Start" /\ pc["main"] = "returned"
    /\ gor[1].pc = "cmd.Wait"
    /\ LiveProcs = {1}

\* the goroutines whose cmd.Start() failed
FailedSpawns == {g \in 1..Len(gor) : gor[g].pc = "done" /\ gor[g].proc = 0}

\* C15: a spawn failure leaves the handle empty, is logged, creates no process,
\* releases the waiting Start (which returns and unlocks) and leaves no watcher
\* waiting; a later Start goes on to launch again.
C15_SpawnFailureLeavesIdle ==
    [][/\ \A g \in 1..Len(gor) :
             (gor[g].pc = "cmd.Start" /\ gor'[g].pc = "done")
             => /\ jl'.cmd = NilCmd
                /\ procs' = procs
                /\ stderr' = Append(stderr, "fail to start")
                /\ startWg'[gor[g].starter] = 0
                /\ pc'[gor[g].starter] = "startWg.Wait"
                /\ Alive'
       /\ \A t \in Threads :
             (pc[t] = "Start_Check" /\ pc'[t] # pc[t]
                 /\ FailedSpawns # {} /\ LiveProcs = {})
             => pc'[t] = "start0"]_vars

\* after a failed spawn a later Start has launched a second goroutine
C15_Witness ==
    /\ Len(gor) = 2
    /\ 1 \in FailedSpawns
    /\ gor[2].pc = "cmd.Start"
    /\ jl.cmd = NilCmd
    /\ Logged("fail to start")

\* the child that goroutine g waits on has exited
ChildOfExited(g) ==
    /\ g <= Len(gor)
    /\ gor[g].proc # 0
    /\ procs[gor[g].proc].state = "exited"

\* goroutine g has run to its end
WatcherDone(g) == g <= Len(gor) /\ gor[g].pc = "done"

\* every goroutine that spawned a child has cleared the handle after its exit
AllChildrenReaped ==
    /\ procs # << >>
    /\ \A g \in 1..Len(gor) : gor[g].pc = "done"

\* C16: the exit of a launched child, however it ended, leads to the watcher's
\* write jl.cmd = nil, the last step of every watcher; with the handle cleared a
\* Start goes on to launch again and a Stop returns from its nil test.
C16_ChildExitLeadsToClearedHandle ==
    /\ \A g \in 1..MaxCalls : ChildOfExited(g) ~> (WatcherDone(g) /\ jl.cmd = NilCmd)
    /\ [][/\ \A g \in 1..Len(gor) :
                (gor[g].proc # 0 /\ gor[g].pc # "done" /\ gor'[g].pc = "done")
                => (gor[g].pc = "clear" /\ jl'.cmd = NilCmd)
          /\ \A t \in Threads :
                (AllChildrenReaped /\ pc'[t] # pc[t])
                => /\ pc[t] = "Start_Check" => pc'[t] = "start0"
                   /\ pc[t] = "Stop_Check" => pc'[t] = "returned"]_vars

\* a child exited with an error, its watcher cleared the handle, and a later Start
\* launched again
C16_Witness ==
    /\ Len(gor) = 2
    /\ gor[1].pc = "done" /\ gor[1].proc = 1
    /\ procs[1].exit = "nonzero"
    /\ jl.cmd = NilCmd
    /\ Len(procs) = 2

\* t is inside the body of Start or Stop: past jl.Lock(), not yet returned
InBody(t) == pc[t] \notin {"idle", "returned", "Start_Lock", "Stop_Lock"}

\* C17: at most one Start or Stop call is inside its body at a time, and the
\* caller inside holds the lock for the whole call, Stop's polling wait included.
C17_StartStopMutuallyExclusive ==
    /\ Cardinality({t \in Threads : InBody(t)}) <= 1
    /\ \A t \in Threads : InBody(t) => lock = t

\* a Stop call waits on its poller, holding the lock, while another call waits
\* for the lock
C17_Witness ==
    \E t, u \in Threads :
        /\ pc[t] = "wg.Wait" /\ lock = t
        /\ pc[u] \in {"Start_Lock", "Stop_Lock"}

\* t holds the lock and its next step reads jl.cmd
ReadsHandleNext(t) ==
    /\ lock = t
    /\ pc[t] \in {"Start_Check", "Stop_Check", "stop0"}

\* C18: the watcher's write jl.cmd = nil is not ordered by the lock: whenever a
\* watcher has reached the write it can make it, whoever holds the lock, also
\* while a Start or Stop call holds the lock and is about to read the handle.
C18_WatcherWriteIgnoresLock ==
    \A g \in 1..Len(gor) :
        (Alive /\ gor[g].pc = "clear") => ENABLED go_Clear(g)

\* the watcher's write and the read of Stop's nil test are enabled together
C18_Witness ==
    \E g \in 1..Len(gor) :
        /\ gor[g].pc = "clear"
        /\ ReadsHandleNext("main")
        /\ op["main"] = "Stop"
        /\ ENABLED go_Clear(g)
        /\ ENABLED Stop_Check("main")

\* the step is a poll of t's poller
IsPoll(t) == poller'[t].fired = poller[t].fired + 1

\* C19: a poll logs a timeout only when it found the handle non-empty and its
\* count, the number of polls that found the handle non-empty, exceeds 50
\* (count * 100ms > 5s); the budget test of the code is true for exactly those
\* counts; a poll that found the handle empty logs nothing.
C19_TimeoutOnlyBeyondBudget ==
    /\ [](\A c \in 0..MaxPolls : TimedOut(c) <=> c > 50)
    /\ [](Logged("timeout") => \E t \in Threads : poller[t].count > 50)
    /\ [][\A t \in Threads :
            IsPoll(t)
            => /\ stderr' # stderr
                  => /\ stderr' = Append(stderr, "timeout")
                     /\ jl.cmd # NilCmd
                     /\ poller'[t].count > 50
               /\ jl.cmd = NilCmd
                  => (stderr' = stderr /\ poller'[t].count = poller[t].count)
               /\ jl.cmd # NilCmd
                  => poller'[t].count = poller[t].count + 1]_vars

\* a poll found the handle non-empty within the budget and logged no timeout
C19_Witness ==
    /\ \E t \in Threads :
          poller[t].fired = 1 /\ poller[t].count = 1 /\ poller[t].pc = "recv"
    /\ ~Logged("timeout")

\* C20: the lock is held only by a call that is inside its body: every step by
\* which a Start or Stop call returns releases the lock, and the lock is free
\* whenever no call is inside Start or Stop.
C20_LockFreeOutsideCalls ==
    /\ [](lock # NoLock => (lock \in Threads /\ InBody(lock)))
    /\ []((\A t \in Threads : ~InBody(t)) => lock = NoLock)
    /\ [][\A t \in Threads :
            (pc[t] # "returned" /\ pc'[t] = "returned") => lock' = NoLock]_vars

\* a Stop call has returned from stop0 after its poll found the handle empty, a
\* Start call has returned too, and the lock is free
C20_Witness ==
    /\ lock = NoLock
    /\ \E t \in Threads :
          /\ op[t] = "Stop" /\ pc[t] = "returned"
          /\ poller[t].pc = "done" /\ stopCmds >= 1
    /\ \E u \in Threads : op[u] = "Start" /\ pc[u] = "returned"

====
